---- MODULE Spec2Model ----
(***************************************************************************)
(* Model of WindFetch.py: the WaterBody fetch engine.                      *)
(*                                                                         *)
(* Numbers.  A cell of a float array is either NaN, written <<>>, or a     *)
(* rational <<num, den>> with den > 0.  A resolution is such a rational.   *)
(* Arrays.   A 2-D array is [nrow, ncol, data] with data[i][j] the cell of *)
(* row i and column j (1-based here, 0-based in numpy).                    *)
(***************************************************************************)
EXTENDS Integers, Sequences, FiniteSets

VARIABLES
    constructed,    \* TRUE once WaterBody.__init__ has returned an instance
    grid,           \* the classification grid handed to the constructor
    water_id,       \* self.water_id
    landwater,      \* self.landwater (the Water Mask)
    resolution,     \* self.resolution
    estimated_pad,  \* self.estimated_pad
    op,             \* the operation that ran last ("idle" between calls)
    args,           \* its arguments
    ret,            \* what it returned or raised
    fetched         \* TRUE once a fetch call on the instance has returned

vars == <<constructed, grid, water_id, landwater, resolution, estimated_pad, op, args, ret,
          fetched>>

-----------------------------------------------------------------------------
(* Bounds of the model *)

MaxKernelCells == 8   \* kernel arrays have at most this many cells
MaxGridCells == 4     \* classification grids have at most this many cells
MaxPadWidth == 2      \* padding is called with pad_width in 0..MaxPadWidth
MaxPadCells == 4      \* arrays handed to padding have at most this many cells
MaxMinor == 4         \* minor_dir_list is called with at most this many minor directions

-----------------------------------------------------------------------------
(* Floats *)

NaN == <<>>
Num(n) == <<n, 1>>
IsNaN(x) == x = NaN
WATER == Num(-1)

\* float multiplication: NaN is absorbing
Mul(x, y) == IF IsNaN(x) \/ IsNaN(y) THEN NaN ELSE <<x[1] * y[1], x[2] * y[2]>>

\* numeric equality of two cells (NaN is treated as equal to NaN: "both absent")
SameValue(x, y) ==
    IF IsNaN(x) \/ IsNaN(y) THEN IsNaN(x) /\ IsNaN(y) ELSE x[1] * y[2] = y[1] * x[2]

Min(a, b) == IF a <= b THEN a ELSE b
Max(a, b) == IF a >= b THEN a ELSE b
Abs(a) == IF a >= 0 THEN a ELSE -a

-----------------------------------------------------------------------------
(* Arrays *)

\* F applied to the value of v: the value is computed once and F's parameter names it,
\* as a local variable of the code names the value assigned to it
Let(v, F(_)) == CHOOSE out \in {F(val) : val \in {v}} : TRUE

\* a function on 1..n as an explicit tuple (the same value, computed once)
Tuple(fn) == SubSeq(fn, 1, Len(fn))

Array(nr, nc, cell(_, _)) ==
    [nrow |-> nr, ncol |-> nc,
     data |-> Tuple([ii \in 1..nr |-> Tuple([jj \in 1..nc |-> cell(ii, jj)])])]

Shape(a) == <<a.nrow, a.ncol>>

\* all R x C arrays with cells in S
ArraysOver(R, C, S) ==
    {[nrow |-> R, ncol |-> C, data |-> d] : d \in [1..R -> [1..C -> S]]}

\* the shapes with at least one row and one column and at most n cells
ShapesUpTo(n) == {s \in (1..n) \X (1..n) : s[1] * s[2] <= n}

SameArray(a, b) ==
    /\ Shape(a) = Shape(b)
    /\ \A i \in 1..a.nrow : \A j \in 1..a.ncol : SameValue(a.data[i][j], b.data[i][j])

-----------------------------------------------------------------------------
(* WaterBody._fetch_length_vect *)

\* array.flatten(order="F"): column after column
FlattenF(a) ==
    Tuple([k \in 1..(a.nrow * a.ncol) |->
              a.data[((k - 1) % a.nrow) + 1][((k - 1) \div a.nrow) + 1]])

\* np.cumsum of a sequence of integers, by halves: the running sums of the second
\* half are its own running sums plus the total of the first half
RECURSIVE CumSum(_)
CumSum(seq) ==
    Let(seq, LAMBDA s :
        IF Len(s) <= 1 THEN s
        ELSE Let(Len(s) \div 2, LAMBDA half :
             Let(CumSum(SubSeq(s, 1, half)), LAMBDA left :
             Let(CumSum(SubSeq(s, half + 1, Len(s))), LAMBDA right :
                 left \o Tuple([k \in 1..Len(right) |-> right[k] + left[half]])))))

\* c[n]: the elements of c at the positions where the mask n is TRUE, in order
RECURSIVE BoolIndex(_, _)
BoolIndex(c, n) ==
    Let(<<c, n>>, LAMBDA cn :
        IF Len(cn[1]) = 0 THEN <<>>
        ELSE IF Len(cn[1]) = 1 THEN (IF cn[2][1] THEN cn[1] ELSE <<>>)
        ELSE Let(Len(cn[1]) \div 2, LAMBDA half :
                 BoolIndex(SubSeq(cn[1], 1, half), SubSeq(cn[2], 1, half))
                     \o BoolIndex(SubSeq(cn[1], half + 1, Len(cn[1])),
                                  SubSeq(cn[2], half + 1, Len(cn[2])))))

\* np.diff
Diff(b) == Tuple([i \in 1..(Len(b) - 1) |-> b[i + 1] - b[i]])

\* v[n] = vals: the i-th TRUE position of the mask n receives vals[i]
MaskAssign(v, n, vals) ==
    Let(CumSum(Tuple([k \in 1..Len(n) |-> IF n[k] THEN 1 ELSE 0])), LAMBDA rank :
        Tuple([k \in 1..Len(v) |-> IF n[k] THEN vals[rank[k]] ELSE v[k]]))

\* (a variant that never resets the count at a NOT_WATER cell)
FetchLengthVectNoReset(array, res) ==
    Let(Array(array.nrow, array.ncol, LAMBDA i, j : Mul(array.data[i][j], Num(-1))), LAMBDA w :
    Let(FlattenF(w), LAMBDA v :
    Let(CumSum(Tuple([k \in 1..Len(v) |-> IF IsNaN(v[k]) THEN 0 ELSE v[k][1]])), LAMBDA x :
        Array(w.nrow, w.ncol,
              LAMBDA i, j : Mul(Mul(Num(x[(j - 1) * w.nrow + i]), w.data[i][j]), res)))))

\* (v_num holds the numbers of v, 0 at its NaN positions, which v[n] = -d overwrites)
FetchLengthVect(array, res) ==
    Let(Array(array.nrow, array.ncol, LAMBDA i, j : Mul(array.data[i][j], Num(-1))), LAMBDA w :
    Let(FlattenF(w), LAMBDA v :
    Let(Tuple([k \in 1..Len(v) |-> IsNaN(v[k])]), LAMBDA n :
    Let(Tuple([k \in 1..Len(v) |-> ~n[k]]), LAMBDA a :
    Let(CumSum(Tuple([k \in 1..Len(a) |-> IF a[k] THEN 1 ELSE 0])), LAMBDA c :
    Let(<<0>> \o BoolIndex(c, n), LAMBDA b :
    Let(Diff(b), LAMBDA d :
    Let(Tuple([k \in 1..Len(v) |-> IF n[k] THEN 0 ELSE v[k][1]]), LAMBDA v_num :
    Let(Tuple([i \in 1..Len(d) |-> -d[i]]), LAMBDA minus_d :
    Let(MaskAssign(v_num, n, minus_d), LAMBDA v_set :
    Let(CumSum(v_set), LAMBDA x :
        Array(w.nrow, w.ncol,
              LAMBDA i, j : Mul(Mul(Num(x[(j - 1) * w.nrow + i]), w.data[i][j]), res)))))))))))))

-----------------------------------------------------------------------------
(* WaterBody.padding *)

\* the rows (or columns) array[p:-p] keeps of n: Python's slice(p, -p), where -0 is 0
SliceStart(n, p) == Min(p, n)
SliceStop(n, p) == IF p = 0 THEN 0 ELSE Max(n - p, 0)
SliceLen(n, p) == Max(SliceStop(n, p) - SliceStart(n, p), 0)

\* (a variant whose inverse crops the far side only: array[:-pad_width, :-pad_width])
PaddingOneSided(array, pad_width, fill_value, inverse) ==
    IF ~inverse
    THEN Array(array.nrow + 2 * pad_width, array.ncol + 2 * pad_width,
               LAMBDA i, j : IF /\ i > pad_width /\ i <= array.nrow + pad_width
                                /\ j > pad_width /\ j <= array.ncol + pad_width
                             THEN array.data[i - pad_width][j - pad_width]
                             ELSE fill_value)
    ELSE Array(Max(array.nrow - pad_width, 0), Max(array.ncol - pad_width, 0),
               LAMBDA i, j : array.data[i][j])

Padding(array, pad_width, fill_value, inverse) ==
    IF ~inverse
    THEN Array(array.nrow + 2 * pad_width, array.ncol + 2 * pad_width,
               LAMBDA i, j : IF /\ i > pad_width /\ i <= array.nrow + pad_width
                                /\ j > pad_width /\ j <= array.ncol + pad_width
                             THEN array.data[i - pad_width][j - pad_width]
                             ELSE fill_value)
    ELSE Array(SliceLen(array.nrow, pad_width), SliceLen(array.ncol, pad_width),
               LAMBDA i, j : array.data[SliceStart(array.nrow, pad_width) + i]
                                       [SliceStart(array.ncol, pad_width) + j])

-----------------------------------------------------------------------------
(* WaterBody.__init__ *)

\* np.where(landwater == water_id, -1, np.nan)
WaterMask(g, wid) ==
    Array(g.nrow, g.ncol, LAMBDA i, j : IF g.data[i][j] = wid THEN WATER ELSE NaN)

\* math.ceil(sqrt(xlen^2 + ylen^2) - min(xlen, ylen)) for xlen = xnum/den, ylen = ynum/den:
\* the least integer p with den * p + min(xnum, ynum) >= sqrt(xnum^2 + ynum^2)
CeilDiagMinusMin(xnum, ynum, den) ==
    LET m == Min(xnum, ynum)
        s == xnum * xnum + ynum * ynum
        Enough(p) == den * p + m >= 0 /\ (den * p + m) * (den * p + m) >= s
    IN  CHOOSE p \in 0..(2 * (Abs(xnum) + Abs(ynum)) + 1) :
            Enough(p) /\ \A q \in 0..(p - 1) : ~Enough(q)

EstimatedPad(nrow, ncol, res) ==
    LET xlen == res[1] * ncol
        ylen == res[1] * nrow
    IN  CeilDiagMinusMin(xlen, ylen, res[2])

-----------------------------------------------------------------------------
(* scipy.ndimage rotate(..., reshape=False, mode="constant", cval=nan, order=0), *)
(* for the angles that are whole quarter turns                                    *)

CosDeg(angle) == LET t == angle % 360 IN IF t = 0 THEN 1 ELSE IF t = 180 THEN -1 ELSE 0
SinDeg(angle) == LET t == angle % 360 IN IF t = 90 THEN 1 ELSE IF t = 270 THEN -1 ELSE 0

\* the input coordinates of every output cell are whole numbers
RotationExact(nrow, ncol, angle) ==
    /\ angle % 90 = 0
    /\ angle % 180 = 0 \/ (nrow - ncol) % 2 = 0

\* output cell (i, j) takes the input cell nearest to
\* [[c, s], [-s, c]] (o - center) + center; twice the coordinates are computed here
Rotate(array, angle, cval) ==
    LET c == CosDeg(angle)
        s == SinDeg(angle)
        R == array.nrow
        C == array.ncol
        Row2(i, j) == c * (2 * (i - 1) - (R - 1)) + s * (2 * (j - 1) - (C - 1)) + (R - 1)
        Col2(i, j) == (-s) * (2 * (i - 1) - (R - 1)) + c * (2 * (j - 1) - (C - 1)) + (C - 1)
    IN  Array(R, C,
              LAMBDA i, j : LET row2 == Row2(i, j)
                                col2 == Col2(i, j)
                            IN  IF /\ row2 >= 0 /\ row2 <= 2 * (R - 1)
                                   /\ col2 >= 0 /\ col2 <= 2 * (C - 1)
                                THEN array.data[(row2 \div 2) + 1][(col2 \div 2) + 1]
                                ELSE cval)

-----------------------------------------------------------------------------
(* WaterBody._fetch_single_dir *)

\* the fields of the instance a fetch reads
Self == [landwater |-> landwater, resolution |-> resolution, estimated_pad |-> estimated_pad]

\* Both operators return the instance as the call leaves it, and the array.
\* (a variant that stores the padded array back into self.landwater)
FetchSingleDirStoresPad(self, angle) ==
    Let(Padding(self.landwater, self.estimated_pad, NaN, FALSE), LAMBDA array_pad :
    Let(Rotate(array_pad, angle, NaN), LAMBDA array_rot :
    Let(FetchLengthVect(array_rot, self.resolution), LAMBDA array_fetch :
    Let(Rotate(array_fetch, 360 - angle, NaN), LAMBDA array_inv_rot :
    Let(Padding(array_inv_rot, self.estimated_pad, Mul(Num(-1), self.resolution), TRUE),
        LAMBDA array_inv_pad :
        [self |-> [self EXCEPT !.landwater = array_pad], array |-> array_inv_pad])))))

FetchSingleDir(self, angle) ==
    Let(Padding(self.landwater, self.estimated_pad, NaN, FALSE), LAMBDA array_pad :
    Let(Rotate(array_pad, angle, NaN), LAMBDA array_rot :
    Let(FetchLengthVect(array_rot, self.resolution), LAMBDA array_fetch :
    Let(Rotate(array_fetch, 360 - angle, NaN), LAMBDA array_inv_rot :
    Let(Padding(array_inv_rot, self.estimated_pad, Mul(Num(-1), self.resolution), TRUE),
        LAMBDA array_inv_pad :
        [self |-> self, array |-> array_inv_pad])))))

-----------------------------------------------------------------------------
(* WaterBody.fetch *)

None == <<>>
Some(v) == <<v>>
\* Python truthiness of an optional number: None and 0 are false
Truthy(o) == o # None /\ o[1] # 0

\* directions if isinstance(directions, list) else [directions]
\* (a bare bearing is [list |-> FALSE, angle |-> d], a list [list |-> TRUE, angles |-> ds])
AsList(directions) == IF directions.list THEN directions.angles ELSE <<directions.angle>>

\* minor_seq = [i * minor_interval for i in range(minor_directions)]
MinorSeq(minor_interval, minor_directions) ==
    Tuple([i \in 1..minor_directions |-> (i - 1) * minor_interval])

\* minor_seq[int(len(minor_seq) / 2)] raises IndexError on an empty minor_seq
MinorSeqMidRaises(minor_interval, minor_directions) ==
    Len(MinorSeq(minor_interval, minor_directions)) = 0

\* the nested loops "for d in directions: for i in minor_seq: append" unrolled
RECURSIVE AppendCluster(_, _, _, _)
AppendCluster(all_directions, d, minor_seq, minor_seq_mid) ==
    IF minor_seq = <<>> THEN all_directions
    ELSE AppendCluster(Append(all_directions, (d + (Head(minor_seq) - minor_seq_mid)) % 360),
                       d, Tail(minor_seq), minor_seq_mid)

RECURSIVE AppendClusters(_, _, _, _)
AppendClusters(all_directions, directions, minor_seq, minor_seq_mid) ==
    IF directions = <<>> THEN all_directions
    ELSE AppendClusters(AppendCluster(all_directions, Head(directions), minor_seq, minor_seq_mid),
                        Tail(directions), minor_seq, minor_seq_mid)

\* (a variant that does not centre the cluster: it subtracts minor_seq[0])
MinorDirListFromFirst(directions, minor_interval, minor_directions) ==
    LET minor_seq == MinorSeq(minor_interval, minor_directions)
    IN  AppendClusters(<<>>, directions, minor_seq, minor_seq[1])

MinorDirList(directions, minor_interval, minor_directions) ==
    LET minor_seq == MinorSeq(minor_interval, minor_directions)
        minor_seq_mid == minor_seq[(Len(minor_seq) \div 2) + 1]
    IN  AppendClusters(<<>>, directions, minor_seq, minor_seq_mid)

\* (a variant that yields chunks of one element)
DivideChunksByOne(l, n) == Tuple([k \in 1..Len(l) |-> <<l[k]>>])

\* list(divide_chunks(l, n))
DivideChunks(l, n) ==
    Tuple([k \in 1..((Len(l) + n - 1) \div n) |->
              SubSeq(l, (k - 1) * n + 1, Min(k * n, Len(l)))])

Add(x, y) == IF IsNaN(x) \/ IsNaN(y) THEN NaN ELSE <<x[1] * y[2] + y[1] * x[2], x[2] * y[2]>>

RECURSIVE Sum(_)
Sum(xs) == IF Len(xs) = 1 THEN xs[1] ELSE Add(Sum(SubSeq(xs, 1, Len(xs) - 1)), xs[Len(xs)])

\* np.mean(np.stack(arrays), axis=0): NaN wherever a member is NaN
Mean(arrays) ==
    Array(arrays[1].nrow, arrays[1].ncol,
          LAMBDA i, j : LET t == Sum(Tuple([k \in 1..Len(arrays) |-> arrays[k].data[i][j]]))
                        IN  IF IsNaN(t) THEN NaN ELSE <<t[1], t[2] * Len(arrays)>>)

\* np.dstack: data[i][j][k] is cell (i, j) of the k-th array
DStack(arrays) ==
    [nrow |-> arrays[1].nrow, ncol |-> arrays[1].ncol, nband |-> Len(arrays),
     data |-> Tuple([i \in 1..arrays[1].nrow |-> Tuple([j \in 1..arrays[1].ncol |->
                  Tuple([k \in 1..Len(arrays) |-> arrays[k].data[i][j]])])])]

\* band k of a stack, as a 2-D array
Band(stack, k) == Array(stack.nrow, stack.ncol, LAMBDA i, j : stack.data[i][j][k])

\* "for d in ...: array_single_dir = self._fetch_single_dir(angle=d); append"
RECURSIVE SingleDirs(_, _)
SingleDirs(self, angles) ==
    IF angles = <<>> THEN [self |-> self, arrays |-> <<>>]
    ELSE Let(FetchSingleDir(self, Head(angles)), LAMBDA first :
         Let(SingleDirs(first.self, Tail(angles)), LAMBDA rest :
             [self |-> rest.self, arrays |-> <<first.array>> \o rest.arrays]))

\* the angles a call hands to _fetch_single_dir
AnglesUsed(directions, minor_directions, minor_interval) ==
    IF Truthy(minor_interval) /\ Truthy(minor_directions)
    THEN IF MinorSeqMidRaises(minor_interval[1], minor_directions[1]) THEN <<>>
         ELSE MinorDirList(AsList(directions), minor_interval[1], minor_directions[1])
    ELSE AsList(directions)

\* returns the instance as the call leaves it, and the call's outcome
Fetch(self, directions, minor_directions, minor_interval) ==
    LET dirs == AsList(directions)
    IN  IF Truthy(minor_interval) /\ Truthy(minor_directions)
        THEN IF MinorSeqMidRaises(minor_interval[1], minor_directions[1])
             THEN [self |-> self, ret |-> [kind |-> "IndexError"]]
             ELSE Let(MinorDirList(dirs, minor_interval[1], minor_directions[1]),
                      LAMBDA all_directions :
                  Let(SingleDirs(self, all_directions), LAMBDA all :
                  Let(DivideChunks(all.arrays, minor_directions[1]), LAMBDA chunks :
                  Let(Tuple([k \in 1..Len(chunks) |-> Mean(chunks[k])]), LAMBDA dir_arrays :
                      [self |-> all.self,
                       ret |-> [kind |-> "stack", stack |-> DStack(dir_arrays)]]))))
        ELSE Let(SingleDirs(self, dirs), LAMBDA all :
                 [self |-> all.self,
                  ret |-> [kind |-> "stack", stack |-> DStack(all.arrays)]])

-----------------------------------------------------------------------------
(* Inputs *)

Labels == {0, 1}
WaterIds == {1}
Resolutions == {<<-1, 16>>, <<0, 1>>, <<1, 8>>}
Grids == UNION {ArraysOver(s[1], s[2], Labels) : s \in ShapesUpTo(MaxGridCells)}

Positive(res) == res[1] > 0

Bare(d) == [list |-> FALSE, angle |-> d, angles |-> <<>>]
List(ds) == [list |-> TRUE, angle |-> 0, angles |-> ds]

Call(d, n, m) == [directions |-> d, minor_directions |-> n, minor_interval |-> m]

\* the fetch calls tried: bare and listed directions, repeated directions, every way of
\* giving or leaving out the minor parameters
FetchArgs ==
    {Call(Bare(0), None, None), Call(List(<<180, 90>>), None, None),
     Call(List(<<270, 270>>), None, None),
     Call(List(<<90>>), Some(3), None), Call(Bare(0), None, Some(90)),
     Call(Bare(0), Some(0), Some(90)), Call(Bare(0), Some(-1), Some(90)),
     Call(Bare(0), Some(2), Some(0)), Call(List(<<180, 90>>), Some(3), Some(90))}

-----------------------------------------------------------------------------
(* The engine: construct one instance, then call fetch any number of times *)

NoInstance ==
    /\ constructed = FALSE
    /\ grid = <<>>
    /\ water_id = 0
    /\ landwater = <<>>
    /\ resolution = <<>>
    /\ estimated_pad = 0
    /\ fetched = FALSE

Init ==
    /\ NoInstance
    /\ op = "idle"
    /\ args = <<>>
    /\ ret = <<>>

Construct ==
    /\ ~constructed
    /\ op = "idle"
    /\ \E g \in Grids, wid \in WaterIds, res \in Resolutions :
          /\ grid' = g
          /\ water_id' = wid
          /\ landwater' = WaterMask(g, wid)
          /\ resolution' = res
          /\ estimated_pad' = EstimatedPad(g.nrow, g.ncol, res)
          /\ args' = [landwater |-> g, water_id |-> wid, resolution |-> res]
    /\ constructed' = TRUE
    /\ op' = "__init__"
    /\ ret' = [kind |-> "instance"]
    /\ UNCHANGED fetched

FetchCall ==
    /\ constructed
    /\ op = "idle"
    /\ \E a \in FetchArgs :
          /\ LET angles == AnglesUsed(a.directions, a.minor_directions, a.minor_interval)
             IN  \A k \in DOMAIN angles : RotationExact(landwater.nrow, landwater.ncol, angles[k])
          /\ \E r \in {Fetch(Self, a.directions, a.minor_directions, a.minor_interval)} :
                 /\ landwater' = r.self.landwater
                 /\ resolution' = r.self.resolution
                 /\ estimated_pad' = r.self.estimated_pad
                 /\ ret' = r.ret
          /\ args' = a
    /\ op' = "fetch"
    /\ UNCHANGED <<constructed, grid, water_id, fetched>>

\* the caller takes the result; the engine is ready for the next call
Return ==
    /\ op # "idle"
    /\ op' = "idle"
    /\ args' = <<>>
    /\ ret' = <<>>
    /\ fetched' = (fetched \/ op = "fetch")
    /\ UNCHANGED <<constructed, grid, water_id, landwater, resolution, estimated_pad>>

Next == Construct \/ FetchCall \/ Return

Spec == Init /\ [][Next]_vars

-----------------------------------------------------------------------------
(* The kernel alone: _fetch_length_vect applied to one array *)

KernelArrays == UNION {ArraysOver(s[1], s[2], {WATER, NaN}) : s \in ShapesUpTo(MaxKernelCells)}
KernelResolutions == {<<-1, 1>>, <<0, 1>>, <<1, 1>>, <<3, 2>>}

InitKernel ==
    /\ NoInstance
    /\ op = "input"
    /\ args \in {[array |-> a, resolution |-> r] : a \in KernelArrays, r \in KernelResolutions}
    /\ ret = <<>>

KernelCall ==
    /\ op = "input"
    /\ op' = "_fetch_length_vect"
    /\ ret' = FetchLengthVect(args.array, args.resolution)
    /\ UNCHANGED <<constructed, grid, water_id, landwater, resolution, estimated_pad, args,
                   fetched>>

NextKernel == KernelCall

SpecKernel == InitKernel /\ [][NextKernel]_vars

-----------------------------------------------------------------------------
(* padding alone: forward, then inverse with the same pad_width *)

PadArrays ==
    UNION {ArraysOver(s[1], s[2], {NaN, WATER, Num(2)}) : s \in ShapesUpTo(MaxPadCells)}
PadFills == {NaN, Num(0)}

InitPadding ==
    /\ NoInstance
    /\ op = "input"
    /\ args \in {[array |-> a, pad_width |-> p, fill_value |-> f] :
                    a \in PadArrays, p \in 0..MaxPadWidth, f \in PadFills}
    /\ ret = <<>>

PadCall ==
    /\ op = "input"
    /\ op' = "pad"
    /\ ret' = Padding(args.array, args.pad_width, args.fill_value, FALSE)
    /\ UNCHANGED <<constructed, grid, water_id, landwater, resolution, estimated_pad, args,
                   fetched>>

UnpadCall ==
    /\ op = "pad"
    /\ op' = "unpad"
    /\ ret' = Padding(ret, args.pad_width, args.fill_value, TRUE)
    /\ UNCHANGED <<constructed, grid, water_id, landwater, resolution, estimated_pad, args,
                   fetched>>

NextPadding == PadCall \/ UnpadCall

SpecPadding == InitPadding /\ [][NextPadding]_vars

-----------------------------------------------------------------------------
(* minor_dir_list alone, as fetch calls it: both minor parameters are truthy *)

ClusterDirections ==
    {<<0>>, <<5>>, <<355>>, <<90, 270>>, <<350, 350>>, <<725, 0>>}
ClusterIntervals == {-10, 5, 10, 90, 400}

InitCluster ==
    /\ NoInstance
    /\ op = "input"
    /\ args \in {Call(List(ds), Some(n), Some(m)) :
                    ds \in ClusterDirections, n \in (-1..MaxMinor) \ {0}, m \in ClusterIntervals}
    /\ ret = <<>>

MinorDirListCall ==
    /\ op = "input"
    /\ Truthy(args.minor_interval) /\ Truthy(args.minor_directions)
    /\ op' = "minor_dir_list"
    /\ ret' = IF MinorSeqMidRaises(args.minor_interval[1], args.minor_directions[1])
              THEN [kind |-> "IndexError", all_directions |-> <<>>]
              ELSE [kind |-> "list",
                    all_directions |-> MinorDirList(AsList(args.directions),
                                                    args.minor_interval[1],
                                                    args.minor_directions[1])]
    /\ UNCHANGED <<constructed, grid, water_id, landwater, resolution, estimated_pad, args,
                   fetched>>

NextCluster == MinorDirListCall

SpecCluster == InitCluster /\ [][NextCluster]_vars

-----------------------------------------------------------------------------
(* What the claims speak of *)

\* the last NOT_WATER row at or above row i of column j (0: none)
LastLand(a, i, j) ==
    LET land == {k \in 1..i : IsNaN(a.data[k][j])}
    IN  IF land = {} THEN 0 ELSE CHOOSE k \in land : \A q \in land : q <= k

\* the consecutive WATER cells of column j that end at row i
RunLength(a, i, j) == i - LastLand(a, i, j)

\* every WATER cell holds res times its own column's run length, every other cell is absent
ColumnFetch(mask, res) ==
    Array(mask.nrow, mask.ncol,
          LAMBDA i, j : IF IsNaN(mask.data[i][j]) THEN NaN
                        ELSE Mul(Num(RunLength(mask, i, j)), res))

Column(cells) == [nrow |-> Len(cells), ncol |-> 1, data |-> [i \in 1..Len(cells) |-> <<cells[i]>>]]

\* the instance as the constructor leaves it
FreshSelf ==
    [landwater |-> WaterMask(grid, water_id), resolution |-> resolution,
     estimated_pad |-> EstimatedPad(grid.nrow, grid.ncol, resolution)]

MinorPath(a) == Truthy(a.minor_interval) /\ Truthy(a.minor_directions)

WaterCount(a) == Cardinality({c \in (1..a.nrow) \X (1..a.ncol) : ~IsNaN(a.data[c[1]][c[2]])})

\* C1: for every 2-D WATER/NOT_WATER array and every resolution the kernel computes each
\* column on its own: a WATER cell holds resolution times the run of WATER cells of its own
\* column that ends at it, a NOT_WATER cell is absent.
C1_KernelColumnsIndependent ==
    op = "_fetch_length_vect" => SameArray(ret, ColumnFetch(args.array, args.resolution))

\* C10: on an array that is a single column the kernel returns, at every WATER cell,
\* resolution times the run of WATER cells ending there, and absent at every NOT_WATER cell.
C10_SingleColumnRunLengths ==
    (op = "_fetch_length_vect" /\ args.array.ncol = 1)
        => SameArray(ret, ColumnFetch(args.array, args.resolution))

C10_Witness ==
    /\ op = "_fetch_length_vect"
    /\ args.array = Column(<<WATER, WATER, NaN, WATER>>)
    /\ args.resolution = Num(1)
    /\ ret = Column(<<Num(1), Num(2), NaN, Num(1)>>)

\* C8: padding an array and then inverse-padding the result with the same pad_width
\* (any non-negative pad_width, any fill value) gives back the array, shape and cells.
C8_PadUnpadIdentity == op = "unpad" => ret = args.array

\* C7: the cluster built for direction d is the minor_directions angles
\* (d + (i - minor_directions // 2) * minor_interval) mod 360, i = 0 .. minor_directions - 1,
\* in that order, each in [0, 360).
C7_ClusterCentredAndWrapped ==
    (op = "minor_dir_list" /\ ret.kind = "list") =>
        LET ds == AsList(args.directions)
            n == args.minor_directions[1]
            m == args.minor_interval[1]
        IN  /\ Len(ret.all_directions) = Len(ds) * n
            /\ \A q \in 1..Len(ds) : \A i \in 0..(n - 1) :
                  /\ ret.all_directions[(q - 1) * n + i + 1] = (ds[q] + (i - (n \div 2)) * m) % 360
                  /\ ret.all_directions[(q - 1) * n + i + 1] \in 0..359

C7_Witness ==
    /\ op = "minor_dir_list"
    /\ args = Call(List(<<5>>), Some(3), Some(10))
    /\ ret.kind = "list"
    /\ ret.all_directions = <<355, 5, 15>>

\* C2: with resolution > 0, a fetch of the single direction 0 returns one band of the
\* grid's shape in which every WATER cell holds resolution times the run of WATER cells
\* ending at it in its own column of the grid, and every other cell is absent.
C2_FetchAtAngleZero ==
    (/\ op = "fetch"
     /\ Positive(resolution)
     /\ AsList(args.directions) = <<0>>
     /\ ~MinorPath(args))
        => /\ ret.kind = "stack"
           /\ <<ret.stack.nrow, ret.stack.ncol, ret.stack.nband>> = <<grid.nrow, grid.ncol, 1>>
           /\ SameArray(Band(ret.stack, 1), ColumnFetch(WaterMask(grid, water_id), resolution))

C2_Witness ==
    /\ op = "fetch"
    /\ args = Call(Bare(0), None, None)
    /\ resolution = <<1, 8>>
    /\ grid = [nrow |-> 2, ncol |-> 2, data |-> <<<<1, 1>>, <<1, 1>>>>]
    /\ water_id = 1
    /\ ret.kind = "stack"
    /\ ret.stack.data = << << <<<<1, 8>>>>, <<<<1, 8>>>> >>, << <<<<2, 8>>>>, <<<<2, 8>>>> >> >>

\* C3: with resolution > 0 the padding margin keeps every cell of the grid inside the
\* padded frame when the padded grid is rotated; for a quarter turn that needs
\* 2 * estimated_pad >= |rows - cols|.
C3_PadHoldsRotatedGrid ==
    (constructed /\ Positive(resolution)) =>
        /\ 2 * estimated_pad >= Abs(grid.nrow - grid.ncol)
        /\ \A angle \in {90, 180, 270} :
              RotationExact(grid.nrow, grid.ncol, angle) =>
                  WaterCount(Rotate(Padding(WaterMask(grid, water_id), estimated_pad, NaN, FALSE),
                                    angle, NaN))
                      = WaterCount(WaterMask(grid, water_id))

\* C4: constructing with a resolution that is 0 or negative fails with InvalidParameter
\* and produces no instance.
C4_NonPositiveResolutionRejected ==
    (op = "__init__" /\ ~Positive(args.resolution))
        => (ret.kind = "InvalidParameter" /\ ~constructed)

\* C5: fetch reports a configuration error, and returns no stack, when exactly one of
\* minor_directions / minor_interval is given or when minor_directions <= 0.
C5_BadMinorParametersRejected ==
    (/\ op = "fetch"
     /\ \/ (args.minor_directions = None) # (args.minor_interval = None)
        \/ (args.minor_directions # None /\ args.minor_directions[1] <= 0))
        => ret.kind = "InvalidParameter"

\* the array band k of a call stands for: the single-direction fetch of direction k,
\* or the mean over direction k's minor cluster
ExpectedBand(a, k) ==
    LET d == AsList(a.directions)[k]
    IN  IF a.minor_directions = None
        THEN FetchSingleDir(FreshSelf, d).array
        ELSE LET n == a.minor_directions[1]
                 m == a.minor_interval[1]
             IN  Mean(Tuple([i \in 1..n |->
                     FetchSingleDir(FreshSelf, (d + ((i - 1) - (n \div 2)) * m) % 360).array]))

\* C6: with resolution > 0, fetch of N >= 1 directions, without minor parameters or with
\* minor_directions >= 1 and a minor_interval, returns a stack of shape (rows, cols, N)
\* whose band k is computed from the k-th requested direction alone.
C6_StackShapeAndBandOrder ==
    (/\ op = "fetch"
     /\ Positive(resolution)
     /\ \/ (args.minor_directions = None /\ args.minor_interval = None)
        \/ (args.minor_directions # None /\ args.minor_interval # None
               /\ args.minor_directions[1] >= 1))
        => /\ ret.kind = "stack"
           /\ <<ret.stack.nrow, ret.stack.ncol, ret.stack.nband>>
                  = <<grid.nrow, grid.ncol, Len(AsList(args.directions))>>
           /\ \A k \in 1..Len(AsList(args.directions)) :
                  SameArray(Band(ret.stack, k), ExpectedBand(args, k))

C6_Witness ==
    /\ op = "fetch"
    /\ args = Call(List(<<180, 90>>), Some(3), Some(90))
    /\ Positive(resolution)
    /\ ret.kind = "stack"
    /\ ret.stack.nband = 2
    /\ WaterCount(Band(ret.stack, 1)) > 0
    /\ ~SameArray(Band(ret.stack, 1), Band(ret.stack, 2))

\* C9: no fetch call changes the Water Mask, the resolution or the Padding Margin, and a
\* fetch call returns what it returns on the instance as constructed, whatever ran before.
C9_FetchLeavesEngineUnchanged ==
    [][constructed =>
          /\ landwater' = landwater
          /\ resolution' = resolution
          /\ estimated_pad' = estimated_pad
          /\ op' = "fetch" =>
                ret' = Fetch(FreshSelf, args'.directions, args'.minor_directions,
                             args'.minor_interval).ret]_vars

C9_Witness ==
    /\ op = "fetch"
    /\ fetched
    /\ ret.kind = "stack"
    /\ WaterCount(Band(ret.stack, 1)) > 0
    /\ landwater = WaterMask(grid, water_id)

====
